---- MODULE Spec2Model ----
(***************************************************************************)
(* Model of hzip.py: the Huffman compressor/decompressor HuffmanCoding.    *)
(*                                                                         *)
(* Python values are represented as follows.                               *)
(*   bytes / bytearray          a sequence of integers in 0..255           *)
(*   a bit string ("0101")      a sequence of integers in {0, 1}           *)
(*   None                       the record None                            *)
(*   Node(char, freq, l, r)     a record [char, freq, left, right]; a      *)
(*                              char of None is NoChar                     *)
(*   a dict / Counter           a sequence of <<key, value>> pairs in      *)
(*                              insertion order (freq_table), or a         *)
(*                              function on its key set (codes)            *)
(*   a pickled object           a record [t, v] tagged with its type       *)
(*   the outcome of a call      Ok(value) when it returns value and        *)
(*   that may raise             Raise(name) when it raises exception name  *)
(*   the file system            a function from the paths that exist to    *)
(*                              their contents                             *)
(***************************************************************************)
EXTENDS Integers, Sequences, FiniteSets, TLC

\* Longest input file of the pipeline specification.
MaxLen == 5
\* Longest input file of the session specification.
SessionLen == 2
\* Number of steps (calls on the instance, changes made to the files by
\* others) of a run.
MaxSteps == 4

\* The byte values input files are drawn from (0 and 255 are the extremes),
\* and those of a session.
Alphabet == {0, 65, 255}
SessionAlphabet == {0, 65}

None == [none |-> TRUE]
NoChar == -1

Ok(value) == [ok |-> TRUE, v |-> value]
Raise(name) == [ok |-> FALSE, v |-> name]

Max(a, b) == IF a > b THEN a ELSE b

-----------------------------------------------------------------------------
(* class Node *)

Node(char, freq, left, right) ==
    [char |-> char, freq |-> freq, left |-> left, right |-> right]

\* Mutant of __lt__: the comparison reversed.
__lt__reversed(self, other) == self.freq > other.freq

\* Node.__lt__: the only comparison heapq makes between nodes.
__lt__(self, other) == self.freq < other.freq

-----------------------------------------------------------------------------
(* heapq, as HuffmanCoding._build_huffman_tree uses it.  Positions are      *)
(* Python's (from 0); heap[pos + 1] is Python's heap[pos].                  *)

RECURSIVE SiftdownLoop(_, _, _, _)
SiftdownLoop(heap, startpos, pos, newitem) ==
    IF pos > startpos
    THEN LET parentpos == (pos - 1) \div 2
             parent == heap[parentpos + 1]
         IN  IF __lt__(newitem, parent)
             THEN SiftdownLoop([heap EXCEPT ![pos + 1] = parent],
                               startpos, parentpos, newitem)
             ELSE [heap EXCEPT ![pos + 1] = newitem]
    ELSE [heap EXCEPT ![pos + 1] = newitem]

_siftdown(heap, startpos, pos) ==
    SiftdownLoop(heap, startpos, pos, heap[pos + 1])

heappush(heap, item) == _siftdown(Append(heap, item), 0, Len(heap))

\* The loop of heapq._siftup: <<heap, pos>> when it leaves the loop.
RECURSIVE SiftupLoop(_, _, _)
SiftupLoop(heap, pos, childpos) ==
    IF childpos < Len(heap)
    THEN LET rightpos == childpos + 1
             c == IF /\ rightpos < Len(heap)
                     /\ ~__lt__(heap[childpos + 1], heap[rightpos + 1])
                  THEN rightpos
                  ELSE childpos
         IN  SiftupLoop([heap EXCEPT ![pos + 1] = heap[c + 1]], c, 2 * c + 1)
    ELSE <<heap, pos>>

_siftup(heap, pos) ==
    LET newitem == heap[pos + 1]
        r == SiftupLoop(heap, pos, 2 * pos + 1)
    IN  _siftdown([r[1] EXCEPT ![r[2] + 1] = newitem], pos, r[2])

\* heapq.heappop: <<the item popped, the heap left>>.
heappop(heap) ==
    LET lastelt == heap[Len(heap)]
        rest == SubSeq(heap, 1, Len(heap) - 1)
    IN  IF Len(rest) > 0
        THEN <<rest[1], _siftup([rest EXCEPT ![1] = lastelt], 0)>>
        ELSE <<lastelt, rest>>

-----------------------------------------------------------------------------
(* class HuffmanCoding: the helpers *)

RECURSIVE FirstSeen(_, _)
FirstSeen(data, seen) ==
    IF Len(data) = 0 THEN <<>>
    ELSE IF Head(data) \in seen THEN FirstSeen(Tail(data), seen)
    ELSE <<Head(data)>> \o FirstSeen(Tail(data), seen \cup {Head(data)})

Occurrences(data, char) == Cardinality({i \in 1..Len(data) : data[i] = char})

\* Counter(data): the <<char, freq>> items in the order items() yields them,
\* the order of first occurrence.
_build_frequency_table(data) ==
    LET keys == FirstSeen(data, {})
    IN  [i \in 1..Len(keys) |-> <<keys[i], Occurrences(data, keys[i])>>]

\* The for loop that pushes one leaf per item of the table.
RECURSIVE PushLeaves(_, _)
PushLeaves(items, heap) ==
    IF Len(items) = 0 THEN heap
    ELSE PushLeaves(Tail(items),
                    heappush(heap, Node(Head(items)[1], Head(items)[2], None, None)))

\* The while loop that merges the two lightest nodes until one is left.
RECURSIVE MergeLoop(_)
MergeLoop(heap) ==
    IF Len(heap) > 1
    THEN LET p1 == heappop(heap)
             left == p1[1]
             p2 == heappop(p1[2])
             right == p2[1]
             merged == Node(NoChar, left.freq + right.freq, left, right)
         IN  MergeLoop(heappush(p2[2], merged))
    ELSE heap

\* Mutant of _build_huffman_tree: no special case for a single character.
_build_huffman_tree_plain(freq_table) ==
    IF Len(freq_table) = 0 THEN None
    ELSE MergeLoop(PushLeaves(freq_table, <<>>))[1]

_build_huffman_tree(freq_table) ==
    IF Len(freq_table) = 0 THEN None
    ELSE LET heap == PushLeaves(freq_table, <<>>)
         IN  IF Len(heap) = 1
             THEN Node(NoChar, heap[1].freq, heappop(heap)[1], None)
             ELSE MergeLoop(heap)[1]

\* dfs of _build_codes: the entries it adds to codes below node.  A key set
\* twice keeps the value set last (the right subtree's).
RECURSIVE dfs(_, _)
dfs(node, code) ==
    IF node.char # NoChar
    THEN node.char :> (IF Len(code) > 0 THEN code ELSE <<0>>)
    ELSE LET l == IF node.left # None THEN dfs(node.left, Append(code, 0)) ELSE <<>>
             r == IF node.right # None THEN dfs(node.right, Append(code, 1)) ELSE <<>>
         IN  r @@ l

\* Mutant of _build_codes: dfs hands code on to the children unextended, so
\* that every leaf is reached with the empty code.
_build_codes_flat(root) ==
    IF root = None THEN <<>> ELSE [char \in DOMAIN dfs(root, <<>>) |-> <<0>>]

_build_codes(root) == IF root = None THEN <<>> ELSE dfs(root, <<>>)

RECURSIVE JoinCodes(_, _)
JoinCodes(data, codes) ==
    IF Len(data) = 0 THEN <<>>
    ELSE codes[Head(data)] \o JoinCodes(Tail(data), codes)

_encode_data(data, codes) ==
    IF \E i \in 1..Len(data) : data[i] \notin DOMAIN codes
    THEN Raise("KeyError")
    ELSE Ok(JoinCodes(data, codes))

\* The for loop of _decode_data from bit i on, and the statements after it:
\* the list decoded.  Reading .char of None raises AttributeError.
RECURSIVE DecodeLoop(_, _, _, _, _)
DecodeLoop(encoded_data, i, current, decoded, root) ==
    IF current = None THEN Raise("AttributeError")
    ELSE IF i > Len(encoded_data)
    THEN Ok(IF current.char # NoChar THEN Append(decoded, current.char) ELSE decoded)
    ELSE LET atLeaf == current.char # NoChar
             d == IF atLeaf THEN Append(decoded, current.char) ELSE decoded
             c == IF atLeaf THEN root ELSE current
         IN  DecodeLoop(encoded_data, i + 1,
                        IF encoded_data[i] = 0 THEN c.left ELSE c.right, d, root)

_decode_data(encoded_data, root) ==
    IF root = None \/ Len(encoded_data) = 0 THEN Ok(<<>>)
    ELSE LET decoded == DecodeLoop(encoded_data, 1, root, <<>>, root)
         IN  IF ~decoded.ok THEN decoded
             ELSE IF \E i \in 1..Len(decoded.v) : decoded.v[i] \notin 0..255
             THEN Raise("ValueError")
             ELSE decoded

(* The objects _serialize_tree builds and pickle carries. *)
PyInt(n) == [t |-> "int", v |-> n]
PyStr(s) == [t |-> "str", v |-> s]
PyTuple(items) == [t |-> "tuple", v |-> items]
IsA(x, type) == x # None /\ x.t = type

\* Mutant of _serialize_tree: the leaf test is "if node.char:", which the
\* byte value 0 fails.
RECURSIVE _serialize_tree_truthy(_)
_serialize_tree_truthy(node) ==
    IF node = None THEN None
    ELSE IF node.char # NoChar /\ node.char # 0
    THEN PyTuple(<<PyStr("leaf"), PyInt(node.char)>>)
    ELSE PyTuple(<<PyStr("internal"),
                   _serialize_tree_truthy(node.left), _serialize_tree_truthy(node.right)>>)

RECURSIVE _serialize_tree(_)
_serialize_tree(node) ==
    IF node = None THEN None
    ELSE IF node.char # NoChar
    THEN PyTuple(<<PyStr("leaf"), PyInt(node.char)>>)
    ELSE PyTuple(<<PyStr("internal"),
                   _serialize_tree(node.left), _serialize_tree(node.right)>>)

\* data[0], data[1], data[2] raise TypeError on an int and IndexError past the
\* end of a tuple (and, a few calls further down, of a str).
RECURSIVE _deserialize_tree(_)
_deserialize_tree(data) ==
    IF data = None THEN Ok(None)
    ELSE IF data.t = "int" THEN Raise("TypeError")
    ELSE IF data.t = "str" \/ Len(data.v) = 0 THEN Raise("IndexError")
    ELSE IF IsA(data.v[1], "str") /\ data.v[1].v = "leaf"
    THEN IF Len(data.v) < 2 THEN Raise("IndexError")
         ELSE IF data.v[2] = None THEN Ok(Node(NoChar, 0, None, None))
         ELSE IF data.v[2].t = "int" THEN Ok(Node(data.v[2].v, 0, None, None))
         ELSE Raise("TypeError")
    ELSE IF Len(data.v) < 2 THEN Raise("IndexError")
    ELSE LET left == _deserialize_tree(data.v[2])
         IN  IF ~left.ok THEN left
             ELSE IF Len(data.v) < 3 THEN Raise("IndexError")
             ELSE LET right == _deserialize_tree(data.v[3])
                  IN  IF ~right.ok THEN right
                      ELSE Ok(Node(NoChar, 0, left.v, right.v))

-----------------------------------------------------------------------------
(* pickle, for the objects above.  The stream is pickle's stack program     *)
(* (operands are pushed, TUPLE2/TUPLE3 pop their items, STOP returns the    *)
(* top of the stack) without its protocol header, frame and memo opcodes,   *)
(* and with a str operand written as the one byte that identifies it.       *)
OP_NONE == 78
OP_BININT1 == 75
OP_SHORT_BINUNICODE == 140
OP_TUPLE2 == 134
OP_TUPLE3 == 135
OP_STOP == 46

StrIds == <<"leaf", "internal">>
StrId(str) == CHOOSE i \in 1..Len(StrIds) : StrIds[i] = str

RECURSIVE save(_)
save(obj) ==
    IF obj = None THEN <<OP_NONE>>
    ELSE IF obj.t = "int" THEN <<OP_BININT1, obj.v>>
    ELSE IF obj.t = "str" THEN <<OP_SHORT_BINUNICODE, StrId(obj.v)>>
    ELSE LET items == obj.v
         IN  IF Len(items) = 2
             THEN save(items[1]) \o save(items[2]) \o <<OP_TUPLE2>>
             ELSE save(items[1]) \o save(items[2]) \o save(items[3]) \o <<OP_TUPLE3>>

pickle_dumps(obj) == save(obj) \o <<OP_STOP>>

RECURSIVE load(_, _, _)
load(bytes, pos, stack) ==
    IF pos > Len(bytes) THEN Raise("EOFError")
    ELSE LET op == bytes[pos]
             n == Len(stack)
         IN  IF op = OP_STOP
             THEN IF n = 0 THEN Raise("UnpicklingError") ELSE Ok(stack[n])
             ELSE IF op = OP_NONE THEN load(bytes, pos + 1, Append(stack, None))
             ELSE IF op = OP_BININT1
             THEN IF pos + 1 > Len(bytes) THEN Raise("EOFError")
                  ELSE load(bytes, pos + 2, Append(stack, PyInt(bytes[pos + 1])))
             ELSE IF op = OP_SHORT_BINUNICODE
             THEN IF pos + 1 > Len(bytes) THEN Raise("EOFError")
                  ELSE IF bytes[pos + 1] \notin 1..Len(StrIds) THEN Raise("UnpicklingError")
                  ELSE load(bytes, pos + 2, Append(stack, PyStr(StrIds[bytes[pos + 1]])))
             ELSE IF op = OP_TUPLE2
             THEN IF n < 2 THEN Raise("UnpicklingError")
                  ELSE load(bytes, pos + 1,
                            Append(SubSeq(stack, 1, n - 2), PyTuple(SubSeq(stack, n - 1, n))))
             ELSE IF op = OP_TUPLE3
             THEN IF n < 3 THEN Raise("UnpicklingError")
                  ELSE load(bytes, pos + 1,
                            Append(SubSeq(stack, 1, n - 3), PyTuple(SubSeq(stack, n - 2, n))))
             ELSE Raise("UnpicklingError")

pickle_loads(bytes) == load(bytes, 1, <<>>)

(* struct: '<I' is four bytes, least significant first; '<B' is one byte.   *)
struct_pack_I(n) ==
    <<n % 256, (n \div 256) % 256, (n \div 65536) % 256, (n \div 16777216) % 256>>

struct_unpack_I(bytes) ==
    IF Len(bytes) # 4 THEN Raise("struct.error")
    ELSE Ok(bytes[1] + 256 * bytes[2] + 65536 * bytes[3] + 16777216 * bytes[4])

struct_pack_B(n) == <<n>>

struct_unpack_B(bytes) ==
    IF Len(bytes) # 1 THEN Raise("struct.error") ELSE Ok(bytes[1])

\* f.read(n) with the file position after the first pos bytes.
read(bytes, pos, n) == SubSeq(bytes, pos + 1, IF pos + n > Len(bytes) THEN Len(bytes) ELSE pos + n)

\* int(byte, 2): the first bit is the most significant.
RECURSIVE int2(_)
int2(bits) ==
    IF Len(bits) = 0 THEN 0
    ELSE 2 * int2(SubSeq(bits, 1, Len(bits) - 1)) + bits[Len(bits)]

\* format(byte, '08b')
format08b(byte) == [i \in 1..8 |-> (byte \div (2 ^ (8 - i))) % 2]

-----------------------------------------------------------------------------
(* compress and decompress.  Each is an operator from the instance (self)   *)
(* and the file system (fs) it is called on to the instance and the file    *)
(* system it leaves, with a record of the call: the value returned, the     *)
(* branch that returned it (kind), and the values of its locals padding,    *)
(* len(encoded_data) before padding, the number of bits appended to it,     *)
(* the bits of compressed_data and the bits handed to _decode_data.         *)

MAGIC == <<72, 90, 73, 80>>    \* b'HZIP'

Call(op, result, kind) ==
    [op |-> op, result |-> result, kind |-> kind,
     padding |-> 0, encoded_len |-> 0, appended |-> 0,
     unpacked |-> <<>>, decode_in |-> <<>>]

NoCall == Call("none", FALSE, "none")

Returns(self, fs, call) == [self |-> self, fs |-> fs, call |-> call]

\* padding = 8 - len(encoded_data) % 8
PaddingOf(encoded_data) == 8 - (Len(encoded_data) % 8)

\* if padding != 8: encoded_data += '0' * padding
Padded(encoded_data, padding) ==
    IF padding # 8 THEN encoded_data \o [i \in 1..padding |-> 0] ELSE encoded_data

\* The loop that packs encoded_data, eight bits to the byte.
RECURSIVE PackBits(_)
PackBits(encoded_data) ==
    IF Len(encoded_data) = 0 THEN <<>>
    ELSE IF Len(encoded_data) <= 8 THEN <<int2(encoded_data)>>
    ELSE <<int2(SubSeq(encoded_data, 1, 8))>>
         \o PackBits(SubSeq(encoded_data, 9, Len(encoded_data)))

\* ''.join(format(byte, '08b') for byte in compressed_data)
RECURSIVE UnpackBits(_)
UnpackBits(compressed_data) ==
    IF Len(compressed_data) = 0 THEN <<>>
    ELSE format08b(Head(compressed_data)) \o UnpackBits(Tail(compressed_data))

\* Mutant of StripPadding: the slice is taken whatever padding is.
StripPaddingAlways(encoded_data, padding) ==
    IF padding = 0 THEN <<>>
    ELSE SubSeq(encoded_data, 1, Max(Len(encoded_data) - padding, 0))

\* if padding != 8: encoded_data = encoded_data[:-padding]
\* (a slice [:-0] is [:0], the empty string; a slice past the start is empty)
StripPadding(encoded_data, padding) ==
    IF padding # 8
    THEN IF padding = 0 THEN <<>>
         ELSE SubSeq(encoded_data, 1, Max(Len(encoded_data) - padding, 0))
    ELSE encoded_data

\* Mutant of MagicMismatch: the magic number is not checked.
MagicNeverChecked(magic) == FALSE

\* magic != b'HZIP'
MagicMismatch(magic) == magic # MAGIC

\* compress from the code table to the packed bytes.  Each value computed
\* on the way is handed on as an operator argument.
EncodeFrom(root, data) ==
    LET Packed(codes, encoded_len, padding, compressed_data) ==
            [ok |-> TRUE, root |-> root, codes |-> codes,
             encoded_len |-> encoded_len, padding |-> padding,
             compressed_data |-> compressed_data]
        Pad(codes, encoded_data, padding) ==
            Packed(codes, Len(encoded_data), padding,
                   PackBits(Padded(encoded_data, padding)))
        Encoded(codes, encoded_data) ==
            IF ~encoded_data.ok
            THEN [ok |-> FALSE, v |-> encoded_data.v, root |-> root, codes |-> codes]
            ELSE Pad(codes, encoded_data.v, PaddingOf(encoded_data.v))
        Coded(codes) == Encoded(codes, _encode_data(data, codes))
    IN  Coded(_build_codes(root))

\* Mutant of Encode: a tree the instance already holds is used again.
Encode_cached(self, data) ==
    EncodeFrom(IF self.root # None THEN self.root
               ELSE _build_huffman_tree(_build_frequency_table(data)), data)

\* compress from the frequency table on: self.root is the tree built from
\* this call's data.
Encode(self, data) ==
    EncodeFrom(_build_huffman_tree(_build_frequency_table(data)), data)

compress(self, fs, input_file, output_file) ==
    LET Write(e, tree_bytes) ==
            Returns([root |-> e.root, codes |-> e.codes],
                    (output_file :> (MAGIC
                                     \o struct_pack_I(Len(tree_bytes))
                                     \o struct_pack_B(e.padding)
                                     \o tree_bytes
                                     \o e.compressed_data)) @@ fs,
                    [Call("compress", TRUE, "ok") EXCEPT
                        !.padding = e.padding,
                        !.encoded_len = e.encoded_len,
                        !.appended = Len(e.compressed_data) * 8 - e.encoded_len])
        Built(e) ==
            IF ~e.ok
            THEN Returns([root |-> e.root, codes |-> e.codes], fs,
                         Call("compress", FALSE, e.v))
            ELSE Write(e, pickle_dumps(_serialize_tree(e.root)))
    IN  IF input_file \notin DOMAIN fs
        THEN Returns(self, fs, Call("compress", FALSE, "FileNotFoundError"))
        ELSE IF Len(fs[input_file]) = 0
        THEN Returns(self, fs, Call("compress", FALSE, "empty"))
        ELSE Built(Encode(self, fs[input_file]))

\* decompress after the magic number: the header, the tree and the payload.
Decode(self, fs, bytes, output_file) ==
    LET failed(name) == Returns(self, fs, Call("decompress", FALSE, name))
        Walked(root, padding, unpacked, encoded_data, decoded_data) ==
            IF ~decoded_data.ok
            THEN Returns([self EXCEPT !.root = root], fs,
                         [Call("decompress", FALSE, decoded_data.v) EXCEPT
                             !.padding = padding,
                             !.unpacked = unpacked, !.decode_in = encoded_data])
            ELSE Returns([self EXCEPT !.root = root],
                         (output_file :> decoded_data.v) @@ fs,
                         [Call("decompress", TRUE, "ok") EXCEPT
                             !.padding = padding,
                             !.unpacked = unpacked, !.decode_in = encoded_data])
        Stripped(root, padding, unpacked, encoded_data) ==
            Walked(root, padding, unpacked, encoded_data,
                   _decode_data(encoded_data, root))
        Unpacked(root, padding, unpacked) ==
            Stripped(root, padding, unpacked, StripPadding(unpacked, padding))
        Rooted(tree_size, padding, root) ==
            IF ~root.ok THEN failed(root.v)
            ELSE Unpacked(root.v, padding,
                          UnpackBits(read(bytes, 9 + tree_size, Len(bytes))))
        Loaded(tree_size, padding, tree_data) ==
            IF ~tree_data.ok THEN failed(tree_data.v)
            ELSE Rooted(tree_size, padding, _deserialize_tree(tree_data.v))
        Header(tree_size, padding) ==
            IF ~tree_size.ok THEN failed(tree_size.v)
            ELSE IF ~padding.ok THEN failed(padding.v)
            ELSE Loaded(tree_size.v, padding.v,
                        pickle_loads(read(bytes, 9, tree_size.v)))
    IN  Header(struct_unpack_I(read(bytes, 4, 4)), struct_unpack_B(read(bytes, 8, 1)))

decompress(self, fs, input_file, output_file) ==
    IF input_file \notin DOMAIN fs
    THEN Returns(self, fs, Call("decompress", FALSE, "FileNotFoundError"))
    ELSE IF MagicMismatch(read(fs[input_file], 0, 4))
    THEN Returns(self, fs, Call("decompress", FALSE, "magic"))
    ELSE Decode(self, fs, fs[input_file], output_file)

-----------------------------------------------------------------------------
(* The program: one HuffmanCoding instance and the files its calls read and *)
(* write, as main() names them.                                             *)

VARIABLES root, codes, files, call, steps

vars == <<root, codes, files, call, steps>>

INPUT == "input.bin"
ARCHIVE == "input.hzip"
OUTPUT == "input_decompressed"

\* The byte strings of length at most n over the byte values in alphabet.
BytesUpTo(alphabet, n) == UNION {[1..k -> alphabet] : k \in 0..n}

Self == [root |-> root, codes |-> codes]

Becomes(r) ==
    /\ root' = r.self.root
    /\ codes' = r.self.codes
    /\ files' = r.fs
    /\ call' = r.call
    /\ steps' = steps + 1

\* HuffmanCoding(): root = None, codes = {}; no call made yet.
Fresh == [root |-> None, codes |-> <<>>]

InitWith(inputs) ==
    /\ root = Fresh.root
    /\ codes = Fresh.codes
    /\ \E data \in inputs : files = (INPUT :> data)
    /\ call = NoCall
    /\ steps = 0

\* huffman.compress(input_file, output_file)
Compress ==
    /\ steps < MaxSteps
    /\ Becomes(compress(Self, files, INPUT, ARCHIVE))

\* huffman.decompress(input_file, output_file)
Decompress ==
    /\ steps < MaxSteps
    /\ Becomes(decompress(Self, files, ARCHIVE, OUTPUT))

Init == InitWith(BytesUpTo(Alphabet, MaxLen))

Next == Compress \/ Decompress

\* Every input file, through a few calls on one instance.
Spec == Init /\ [][Next]_vars

-----------------------------------------------------------------------------
(* A session: the user replaces the input file between calls, and the       *)
(* archive decompress is given need not be one compress wrote: it may have  *)
(* a wrong tag, be cut short, carry another padding count or payload, or    *)
(* hold a tree that is None; or it is a file of another format.             *)

HEADER_LEN == 9

Tamperings(bytes) ==
    {[bytes EXCEPT ![1] = 88]}
    \cup {SubSeq(bytes, 1, k) : k \in {2, 6, 8, 11} \cap 0..(Len(bytes) - 1)}
    \cup {[bytes EXCEPT ![HEADER_LEN] = p] : p \in 0..8}
    \cup {[bytes EXCEPT ![Len(bytes)] = 255]}
    \cup {MAGIC \o struct_pack_I(2) \o <<bytes[HEADER_LEN]>> \o <<OP_NONE, OP_STOP>>
          \o <<bytes[Len(bytes)]>>}

\* Files that are no archives: an empty one, and the first bytes of a zip.
ForeignFiles == {<<>>, <<80, 75, 3, 4>>}

WriteInput ==
    /\ steps < MaxSteps
    /\ \E data \in BytesUpTo(SessionAlphabet, SessionLen) :
          /\ data # files[INPUT]
          /\ files' = [files EXCEPT ![INPUT] = data]
    /\ steps' = steps + 1
    /\ UNCHANGED <<root, codes, call>>

Corrupt ==
    /\ steps < MaxSteps
    /\ \E bytes \in IF ARCHIVE \in DOMAIN files /\ Len(files[ARCHIVE]) > HEADER_LEN
                     THEN Tamperings(files[ARCHIVE])
                     ELSE ForeignFiles :
          /\ ARCHIVE \in DOMAIN files => bytes # files[ARCHIVE]
          /\ files' = (ARCHIVE :> bytes) @@ files
    /\ steps' = steps + 1
    /\ UNCHANGED <<root, codes, call>>

SessionInit == InitWith(BytesUpTo(SessionAlphabet, SessionLen))

SessionNext == Compress \/ Decompress \/ WriteInput \/ Corrupt

SpecSession == SessionInit /\ [][SessionNext]_vars

-----------------------------------------------------------------------------
(* Properties *)

Compressed == call.op = "compress" /\ call.result
Decompressed == call.op = "decompress" /\ call.result
Bytes(data) == {data[i] : i \in 1..Len(data)}
IsPrefix(p, q) == Len(p) <= Len(q) /\ SubSeq(q, 1, Len(p)) = p
Repeated(data) == Len(data) >= 1 /\ Cardinality(Bytes(data)) = 1

\* A tree without its weights.
RECURSIVE Shape(_)
Shape(node) ==
    IF node = None THEN None
    ELSE Node(node.char, 0, Shape(node.left), Shape(node.right))

\* C1. Round trip: compress succeeds on every non-empty input, and decompress
\* of the archive compress wrote from the input succeeds and writes exactly
\* the input.  (Under Spec the archive, when there is one, is the one
\* compress wrote from the input file.)
RoundTrip ==
    /\ (call.op = "compress" /\ Len(files[INPUT]) > 0) => call.result
    /\ (call.op = "decompress" /\ ARCHIVE \in DOMAIN files)
          => /\ call.result
             /\ OUTPUT \in DOMAIN files
             /\ files[OUTPUT] = files[INPUT]

\* An input of three byte values whose encoded length is a multiple of 8 has
\* made the round trip.
RoundTripAligned ==
    /\ Decompressed
    /\ call.padding = 8
    /\ Cardinality(DOMAIN codes) = 3
    /\ files[OUTPUT] = files[INPUT]

\* C2. Prefix-free codes: after compress, the code table has one non-empty
\* code for each byte value of the input and for nothing else, and no code is
\* a prefix of another.
PrefixFree ==
    Compressed =>
        /\ DOMAIN codes = Bytes(files[INPUT])
        /\ \A c \in DOMAIN codes : Len(codes[c]) >= 1
        /\ \A c, d \in DOMAIN codes : c # d => ~IsPrefix(codes[c], codes[d])

\* A table of three codes of two lengths has been built.
PrefixFreeThree ==
    /\ Compressed
    /\ Cardinality(DOMAIN codes) = 3
    /\ \E c, d \in DOMAIN codes : Len(codes[c]) < Len(codes[d])

\* C3. Padding count: the padding byte of the archive compress wrote is in
\* 0..7, is the number of zero bits appended to the encoded bits, and is 0
\* when their number was a multiple of 8 already.
PaddingField ==
    Compressed =>
        LET padding == files[ARCHIVE][HEADER_LEN]
        IN  /\ padding \in 0..7
            /\ padding = call.appended
            /\ call.encoded_len % 8 = 0 => padding = 0

\* C5. Degenerate alphabet: from an input that repeats one byte value,
\* compress builds an internal root whose only child, the left one, is the
\* leaf of that value, and the code table with the single code "0" for it;
\* decompress of the archive writes the input back.
Degenerate ==
    Repeated(files[INPUT]) =>
        /\ Compressed =>
              /\ Shape(root) = Node(NoChar, 0, Node(files[INPUT][1], 0, None, None), None)
              /\ codes = (files[INPUT][1] :> <<0>>)
        /\ (call.op = "decompress" /\ ARCHIVE \in DOMAIN files)
              => /\ call.result
                 /\ OUTPUT \in DOMAIN files
                 /\ files[OUTPUT] = files[INPUT]

\* Several copies of one byte value have made the round trip.
DegenerateRoundTrip ==
    /\ Repeated(files[INPUT])
    /\ Len(files[INPUT]) > 1
    /\ Decompressed
    /\ files[OUTPUT] = files[INPUT]

\* C7. Tree serialization: deserializing the serialized form of the tree
\* compress built gives a tree of the same shape with the same byte values at
\* the same leaves (and all weights 0).
TreeRoundTrip ==
    Compressed =>
        LET tree == _deserialize_tree(_serialize_tree(root))
        IN  tree.ok /\ tree.v = Shape(root)

\* The tree built is the degenerate one, with no right child and a leaf of
\* byte value 0, and carries weights the serialized form drops.
TreeRoundTripDegenerateZero ==
    /\ Compressed
    /\ root.right = None
    /\ root.left.char = 0
    /\ root # Shape(root)

\* C8. Code lengths follow frequencies: in the table compress built from an
\* input of at least two byte values, a value that occurs strictly more often
\* than another has no longer a code.
FrequencyOrdered ==
    (Compressed /\ Cardinality(DOMAIN codes) >= 2) =>
        \A c, d \in DOMAIN codes :
            Occurrences(files[INPUT], c) > Occurrences(files[INPUT], d)
                => Len(codes[c]) <= Len(codes[d])

\* Three byte values, the most frequent with the shortest code.
FrequencyOrderedThree ==
    /\ Compressed
    /\ Cardinality(DOMAIN codes) = 3
    /\ \E c, d \in DOMAIN codes :
          /\ Occurrences(files[INPUT], c) > Occurrences(files[INPUT], d)
          /\ Len(codes[c]) < Len(codes[d])

\* C4. Format rejection: a call of decompress on an archive whose first four
\* bytes are not the tag returns False and changes neither the files (the
\* output file is not created, and not rewritten when there is one) nor the
\* tree and the codes the instance holds.
FormatRejection ==
    [][(/\ Decompress
        /\ ARCHIVE \in DOMAIN files
        /\ read(files[ARCHIVE], 0, 4) # MAGIC)
          => /\ call'.result = FALSE
             /\ files' = files
             /\ root' = root
             /\ codes' = codes]_vars

\* decompress has rejected an archive with a wrong tag while an output file
\* of an earlier call was there.
FormatRejected ==
    /\ call.op = "decompress"
    /\ call.kind = "magic"
    /\ ~call.result
    /\ read(files[ARCHIVE], 0, 4) # MAGIC
    /\ OUTPUT \in DOMAIN files
    /\ root # None

\* C6. Typed errors: a failure is returned as a value that tells its kind;
\* so when compress fails on an empty input and the next call, decompress,
\* fails on a wrong tag, the two values returned differ.
TypedFailures ==
    [][(/\ call.op = "compress" /\ call.kind = "empty"
        /\ call'.op = "decompress" /\ call'.kind = "magic")
          => call'.result # call.result]_vars

\* C9. Padding strip: when the padding byte of the archive is p in 0..7,
\* decompress hands to the tree walk the bits of the payload without the
\* last p of them; all of them when p = 0.
PaddingStrip ==
    (/\ call.op = "decompress"
     /\ call.kind \in {"ok", "AttributeError", "ValueError"}
     /\ call.padding \in 0..7
     /\ Len(call.unpacked) >= call.padding)
        => call.decode_in
           = SubSeq(call.unpacked, 1, Len(call.unpacked) - call.padding)

\* C10. History independence: whatever the instance holds from earlier
\* calls, a call returns what the same call returns on a fresh instance, and
\* leaves the files that call leaves.
SameAs(r) == call' = r.call /\ files' = r.fs

HistoryIndependent ==
    [][/\ Compress => SameAs(compress(Fresh, files, INPUT, ARCHIVE))
       /\ Decompress => SameAs(decompress(Fresh, files, ARCHIVE, OUTPUT))]_vars

\* compress has succeeded on an instance that holds the output of an earlier
\* decompress of another input.
CompressedAfterOther ==
    /\ Compressed
    /\ OUTPUT \in DOMAIN files
    /\ Len(files[OUTPUT]) > 0
    /\ Bytes(files[OUTPUT]) # Bytes(files[INPUT])

====
